---- MODULE Spec2Model ----
(***************************************************************************)
(* Model of the todo/tag REST backend of src/todo-app.js (the application   *)
(* that starts at line 200: the Koa router over one shared SQLite handle).  *)
(*                                                                          *)
(* The store is the three tables of the schema.  Every db.run/db.get/db.all *)
(* statement is one atomic step of the store; a handler is the chain of its *)
(* statements, and the statements of different requests interleave freely   *)
(* (the handle is never put in serialized mode after start-up).  The code   *)
(* that runs between two statements of a handler (validation, the promise   *)
(* continuation, writing the response) touches request-local state only and *)
(* is folded into the step of the statement it follows.                     *)
(*                                                                          *)
(* The schema declares FOREIGN KEYs, but the application never issues       *)
(* PRAGMA foreign_keys = ON, so SQLite does not enforce them, and no        *)
(* ON DELETE CASCADE is declared.  PRIMARY KEY, UNIQUE and AUTOINCREMENT    *)
(* are enforced by the store and are modelled in the statement operators.   *)
(***************************************************************************)
EXTENDS Integers, Sequences, FiniteSets, TLC

VARIABLES
    todos,            \* table todos: id -> [title, completed, order]
    tags,             \* table tags: id -> name
    todo_tags,        \* table todo_tags: bag of rows <<todo_id, tag_id>>
    sqlite_sequence,  \* AUTOINCREMENT bookkeeping: largest rowid ever used per table
    req,              \* per client: the request in flight (handler position and locals)
    response,         \* the response the last step sent, if it sent one
    recording         \* whether this run keeps the responses in response

vars == <<todos, tags, todo_tags, sqlite_sequence, req, response, recording>>

store == <<todos, tags, todo_tags>>

----------------------------------------------------------------------------
(* Bounds of the model.                                                     *)

MaxTodos == 2   \* POST /todos/ is accepted while fewer than this many todo ids were used
MaxTags == 2    \* tag rows are inserted while fewer than this many tag ids were used

Clients == {"c1", "c2"}   \* requests that can be in flight at the same time

TodoIds == 1..MaxTodos
TagIds == 1..MaxTags

----------------------------------------------------------------------------
(* Text.  A string is a sequence of one-character strings.                  *)

WordChars == {"a", "b", "x", "y"}    \* the \w characters that occur in the inputs
Space == " "
Hash == "#"

IsWord(c) == c \in WordChars

\* End of the run of word characters of s that starts at position i.
RECURSIVE WordEnd(_, _)
WordEnd(s, i) ==
    IF i + 1 <= Len(s) /\ IsWord(s[i + 1]) THEN WordEnd(s, i + 1) ELSE i

\* Matches of /#(\w+)/g in s from position i on, left to right: the list of
\* captured names (tags) and the characters that no match covers (rest).
RECURSIVE tagRegex(_, _, _, _)
tagRegex(s, i, found, rest) ==
    IF i > Len(s) THEN [tags |-> found, rest |-> rest]
    ELSE IF s[i] = Hash /\ i + 1 <= Len(s) /\ IsWord(s[i + 1])
         THEN LET j == WordEnd(s, i + 1)
              IN  tagRegex(s, j + 1, Append(found, SubSeq(s, i + 1, j)), rest)
         ELSE tagRegex(s, i + 1, found, Append(rest, s[i]))

\* String.prototype.trim over the model's alphabet.
RECURSIVE TrimLeft(_)
TrimLeft(s) == IF s # <<>> /\ Head(s) = Space THEN TrimLeft(Tail(s)) ELSE s

RECURSIVE TrimRight(_)
TrimRight(s) ==
    IF s # <<>> /\ s[Len(s)] = Space THEN TrimRight(SubSeq(s, 1, Len(s) - 1)) ELSE s

trim(s) == TrimLeft(TrimRight(s))

\* The tags pushed by the exec loop and title.replace(tagRegex, '').trim().
extractTags(title) == tagRegex(title, 1, <<>>, <<>>).tags
cleanedTitle(title) == trim(tagRegex(title, 1, <<>>, <<>>).rest)

----------------------------------------------------------------------------
(* JSON values of request bodies: [type, str, num].                         *)

Undefined == [type |-> "undefined", str |-> <<>>, num |-> 0]
Str(s) == [type |-> "string", str |-> s, num |-> 0]
Num(n) == [type |-> "number", str |-> <<>>, num |-> n]
Bool(b) == [type |-> "boolean", str |-> <<>>, num |-> IF b THEN 1 ELSE 0]

\* JavaScript truthiness of a body value.
Truthy(v) ==
    CASE v.type = "undefined" -> FALSE
      [] v.type = "string" -> v.str # <<>>
      [] v.type = "number" -> v.num # 0
      [] v.type = "boolean" -> v.num = 1

\* A nullable column value or bound parameter: <<>> is NULL, <<v>> is v.
Null == <<>>
Val(v) == <<v>>

\* How node-sqlite3 binds a body value: undefined stays unbound, which is NULL.
BindText(v) == IF v.type = "undefined" THEN Null ELSE Val(v.str)
BindNum(v) == IF v.type = "undefined" THEN Null ELSE Val(v.num)

\* SQL COALESCE(param, column) over nullable values.
COALESCE(param, column) == IF param # Null THEN param ELSE column

----------------------------------------------------------------------------
(* The store: statements of the schema's three tables.                      *)

EmptyTable == [i \in {} |-> 0]

\* Rows of a bag-valued table and the number of copies of a row.
Rows(table) == DOMAIN table
Copies(table, row) == IF row \in DOMAIN table THEN table[row] ELSE 0

\* The rowid of a table without AUTOINCREMENT: one more than the largest
\* rowid that is in the table now.
lastID_MaxRowid(table, seq) ==
    IF DOMAIN table = {} THEN 1
    ELSE (CHOOSE m \in DOMAIN table : \A o \in DOMAIN table : o <= m) + 1

\* INTEGER PRIMARY KEY AUTOINCREMENT: one more than the largest rowid the table
\* ever held (sqlite_sequence), so the id of a deleted row is not handed out again.
lastID(table, seq) == seq + 1

\* INSERT INTO todos (title, completed, "order") VALUES (?, ?, ?)
InsertTodo(table, id, title, completed, order) ==
    [i \in DOMAIN table \cup {id} |->
        IF i = id THEN [title |-> title, completed |-> completed, order |-> order]
        ELSE table[i]]

\* The column without its UNIQUE constraint: nothing collides.
UniqueViolation_Unchecked(table, id, name) == FALSE

\* name TEXT NOT NULL UNIQUE: does INSERT/UPDATE of this name for row id collide?
UniqueViolation(table, id, name) ==
    \E i \in DOMAIN table : i # id /\ table[i] = name

\* INSERT INTO tags (name) VALUES (?), once the UNIQUE check has passed.
InsertTag(table, id, name) ==
    [i \in DOMAIN table \cup {id} |-> IF i = id THEN name ELSE table[i]]

\* SELECT id FROM tags WHERE name = ?  (the set of matching ids; at most one row)
SelectTagByName(table, name) == {i \in DOMAIN table : table[i] = name}

\* PRIMARY KEY (todo_id, tag_id): does INSERT of this row collide?
PrimaryKeyViolation(table, row) == Copies(table, row) > 0

\* One more row <<todo_id, tag_id>> in todo_tags.
InsertRow(table, row) ==
    [x \in DOMAIN table \cup {row} |->
        IF x = row THEN Copies(table, row) + 1 ELSE table[x]]

\* INSERT INTO todo_tags (todo_id, tag_id) VALUES (?, ?): the table afterwards
\* and whether the statement failed (SQLITE_CONSTRAINT on a colliding row).
Insert(table, row) ==
    IF PrimaryKeyViolation(table, row)
    THEN [table |-> table, err |-> TRUE]
    ELSE [table |-> InsertRow(table, row), err |-> FALSE]

\* The statement without OR IGNORE: a colliding row is an error.
InsertOrIgnore_Plain(table, row) ==
    IF PrimaryKeyViolation(table, row)
    THEN [table |-> table, err |-> TRUE]
    ELSE [table |-> InsertRow(table, row), err |-> FALSE]

\* INSERT OR IGNORE INTO todo_tags: a colliding row is skipped without error.
InsertOrIgnore(table, row) ==
    IF PrimaryKeyViolation(table, row)
    THEN [table |-> table, err |-> FALSE]
    ELSE [table |-> InsertRow(table, row), err |-> FALSE]

\* DELETE FROM table WHERE <the rows in gone>
DeleteRows(table, gone) == [x \in DOMAIN table \ gone |-> table[x]]

\* The tag ids read from todo_tags alone, without the join on tags.
JoinTags_NoJoin(todoId) == {row \in Rows(todo_tags) : row[1] = todoId}

\* SELECT tags.id ... FROM tags INNER JOIN todo_tags ON tags.id = todo_tags.tag_id
\*   WHERE todo_tags.todo_id = ?
JoinTags(todoId) ==
    {row \in Rows(todo_tags) : row[1] = todoId /\ row[2] \in DOMAIN tags}

\* SELECT todos.id ... FROM todos INNER JOIN todo_tags ON todos.id = todo_tags.todo_id
\*   WHERE todo_tags.tag_id = ?
JoinTodos(tagId) ==
    {row \in Rows(todo_tags) : row[2] = tagId /\ row[1] \in DOMAIN todos}

----------------------------------------------------------------------------
(* Requests.                                                                *)
(* req[r] is the handler client r is running: op names it, pc is its        *)
(* position, the other fields are its locals.  A handler that settles       *)
(* leaves req[r] empty again.  pc = "thrown": ctx.throw or a TypeError was  *)
(* raised inside a statement callback, outside every promise: the handler's *)
(* promise is never settled, no response is written, and the exception is   *)
(* uncaught (the application installs no handler for it).                   *)
(* response is what Koa wrote in the step just taken: the status code and   *)
(* the request's locals the body is built from.  It is kept only in runs    *)
(* that record responses (recording); the handlers never read it.           *)

NoRequest ==
    [op |-> "none", pc |-> "idle", status |-> 0, id |-> 0, tagId |-> 0,
     chains |-> <<>>, supplied |-> {}, pending |-> {}, body |-> {}]

NoResponse ==
    [op |-> "none", status |-> 0, id |-> 0, tagId |-> 0,
     names |-> <<>>, body |-> {}, changes |-> 0]

\* The response of handler op.
Answer(op, status) == [NoResponse EXCEPT !.op = op, !.status = status]

\* A handler whose statement callback threw.
Thrown(op) == [NoRequest EXCEPT !.op = op, !.pc = "thrown"]

\* No callback has thrown: the process is alive.
Running == \A r \in Clients : req[r].pc # "thrown"

\* A handler waiting for its next statement.
Waiting(op, pc, id, tagId) ==
    [NoRequest EXCEPT !.op = op, !.pc = pc, !.id = id, !.tagId = tagId]

\* The process is alive and client r has no request in flight: it can send one.
Free(r) == Running /\ req[r].pc = "idle"

\* The process is alive and the handler op of client r waits at position pc.
At(r, op, pc) == Running /\ req[r].op = op /\ req[r].pc = pc

\* The step writes this response.
Send(answer) ==
    /\ response' = IF recording THEN answer ELSE NoResponse
    /\ UNCHANGED recording

\* The handler of r settles with this response.
Respond(r, answer) ==
    /\ req' = [req EXCEPT ![r] = NoRequest]
    /\ Send(answer)

\* The handler of r goes on as q without answering.
Continue(r, q) ==
    /\ req' = [req EXCEPT ![r] = q]
    /\ Send(NoResponse)

\* A statement callback of handler op of client r throws.  Nothing catches the
\* exception, so Node ends the process: no request in flight is answered.
Throw(r, op) ==
    /\ req' = [o \in Clients |-> IF o = r THEN Thrown(op) ELSE NoRequest]
    /\ Send(NoResponse)

\* The tables exist and are empty; no request has arrived.
Started ==
    /\ todos = EmptyTable
    /\ tags = EmptyTable
    /\ todo_tags = EmptyTable
    /\ sqlite_sequence = [todos |-> 0, tags |-> 0]
    /\ req = [r \in Clients |-> NoRequest]
    /\ response = NoResponse

Init == Started /\ recording = FALSE

InitRecording == Started /\ recording = TRUE

----------------------------------------------------------------------------
(* POST /todos/                                                             *)

\* One promise of tags.map: the statements that resolve or create one tag
\* and link it to the new todo.
Chain(name) == [name |-> name, pc |-> "lookup", tagId |-> 0]

ChainDone(c) == c.pc \in {"resolved", "rejected"}

ChainNames(chains) == [i \in DOMAIN chains |-> chains[i].name]

\* await Promise.all(chains) after a statement callback of request q of client
\* r has left the chains as given: the handler answers 500 at the first
\* rejection and 201 once every chain has resolved; the chains a rejection
\* leaves behind still run their statements.
Settle(r, q, chains) ==
    LET status == IF q.status # 0 THEN q.status
                  ELSE IF \E i \in DOMAIN chains : chains[i].pc = "rejected" THEN 500
                  ELSE IF \A i \in DOMAIN chains : chains[i].pc = "resolved" THEN 201
                  ELSE 0
        finished == \A i \in DOMAIN chains : ChainDone(chains[i])
    IN  /\ req' = [req EXCEPT ![r] =
              IF finished THEN NoRequest
              ELSE [q EXCEPT !.chains = chains, !.status = status, !.pc = "tags"]]
        /\ Send(IF q.status = 0 /\ status # 0
                THEN [Answer("postTodo", status) EXCEPT
                         !.id = q.id, !.names = ChainNames(chains)]
                ELSE NoResponse)

\* Validation, tag extraction and INSERT INTO todos.
PostTodo(r, b) ==
    /\ Free(r)
    /\ IF b.order.type \notin {"undefined", "number"}
       THEN /\ Respond(r, Answer("postTodo", 400))
            /\ UNCHANGED <<todos, sqlite_sequence>>
       ELSE IF b.title.type # "string"
       THEN \* title.replace is not a function: the handler rejects
            /\ Respond(r, Answer("postTodo", 500))
            /\ UNCHANGED <<todos, sqlite_sequence>>
       ELSE /\ sqlite_sequence.todos < MaxTodos
            /\ LET todoId == lastID(todos, sqlite_sequence.todos)
                   names == extractTags(b.title.str)
                   completedValue == IF Truthy(b.completed) THEN 1 ELSE 0
               IN  /\ todos' = InsertTodo(todos, todoId, cleanedTitle(b.title.str),
                                          completedValue, BindNum(b.order))
                   /\ sqlite_sequence' = [sqlite_sequence EXCEPT !.todos = todoId]
                   /\ Settle(r, [NoRequest EXCEPT !.op = "postTodo", !.id = todoId],
                             [i \in DOMAIN names |-> Chain(names[i])])
    /\ UNCHANGED <<tags, todo_tags>>

\* SELECT id FROM tags WHERE name = ?
PostTodoLookup(r, i) ==
    /\ At(r, "postTodo", "tags")
    /\ i \in DOMAIN req[r].chains
    /\ req[r].chains[i].pc = "lookup"
    /\ LET row == SelectTagByName(tags, req[r].chains[i].name)
           c == IF row # {}
                THEN [req[r].chains[i] EXCEPT !.pc = "link", !.tagId = CHOOSE t \in row : TRUE]
                ELSE [req[r].chains[i] EXCEPT !.pc = "insertTag"]
       IN  Settle(r, req[r], [req[r].chains EXCEPT ![i] = c])
    /\ UNCHANGED <<todos, tags, todo_tags, sqlite_sequence>>

\* INSERT INTO tags (name) VALUES (?)
PostTodoInsertTag(r, i) ==
    /\ At(r, "postTodo", "tags")
    /\ i \in DOMAIN req[r].chains
    /\ req[r].chains[i].pc = "insertTag"
    /\ LET name == req[r].chains[i].name
           tagId == lastID(tags, sqlite_sequence.tags)
       IN  IF UniqueViolation(tags, 0, name)
           THEN /\ Settle(r, req[r], [req[r].chains EXCEPT ![i].pc = "rejected"])
                /\ UNCHANGED <<tags, sqlite_sequence>>
           ELSE /\ sqlite_sequence.tags < MaxTags
                /\ tags' = InsertTag(tags, tagId, name)
                /\ sqlite_sequence' = [sqlite_sequence EXCEPT !.tags = tagId]
                /\ Settle(r, req[r],
                          [req[r].chains EXCEPT ![i].pc = "link", ![i].tagId = tagId])
    /\ UNCHANGED <<todos, todo_tags>>

\* INSERT INTO todo_tags (todo_id, tag_id) VALUES (?, ?)
PostTodoLink(r, i) ==
    /\ At(r, "postTodo", "tags")
    /\ i \in DOMAIN req[r].chains
    /\ req[r].chains[i].pc = "link"
    /\ LET run == Insert(todo_tags, <<req[r].id, req[r].chains[i].tagId>>)
       IN  /\ todo_tags' = run.table
           /\ Settle(r, req[r], [req[r].chains EXCEPT
                  ![i].pc = IF run.err THEN "rejected" ELSE "resolved"])
    /\ UNCHANGED <<todos, tags, sqlite_sequence>>

----------------------------------------------------------------------------
(* PATCH /todos/:id, DELETE /todos/:id, DELETE /todos/                      *)

\* The fields of title, completed, order that a PATCH body supplies.
Supplied(b) == {f \in {"title", "completed", "order"} : b[f].type # "undefined"}

\* The UPDATE without COALESCE: every column is set from the body.
UpdatedTodo_Overwrite(row, b) ==
    [title |-> b.title.str,
     completed |-> IF Truthy(b.completed) THEN 1 ELSE 0,
     order |-> BindNum(b.order)]

\* UPDATE todos SET title = COALESCE(?, title), completed = COALESCE(?, completed),
\*   "order" = COALESCE(?, "order") WHERE id = ?   (the row it writes)
UpdatedTodo(row, b) ==
    LET completedValue ==
            IF b.completed.type # "undefined"
            THEN Val(IF Truthy(b.completed) THEN 1 ELSE 0) ELSE Null
    IN  [title |-> COALESCE(BindText(b.title), Val(row.title))[1],
         completed |-> COALESCE(completedValue, Val(row.completed))[1],
         order |-> COALESCE(BindNum(b.order), row.order)]

\* Validation and the UPDATE statement.
PatchTodo(r, id, b) ==
    /\ Free(r)
    /\ IF b.order.type \notin {"undefined", "number"}
       THEN /\ Respond(r, Answer("patchTodo", 400))
            /\ UNCHANGED todos
       ELSE IF id \notin DOMAIN todos
       THEN \* this.changes === 0: ctx.throw inside the callback
            /\ Throw(r, "patchTodo")
            /\ UNCHANGED todos
       ELSE /\ todos' = [todos EXCEPT ![id] = UpdatedTodo(todos[id], b)]
            /\ Continue(r, [Waiting("patchTodo", "reselect", id, 0) EXCEPT
                               !.supplied = Supplied(b)])
    /\ UNCHANGED <<tags, todo_tags, sqlite_sequence>>

\* SELECT * FROM todos WHERE id = ?  (the updated row, for the response)
PatchTodoSelect(r) ==
    /\ At(r, "patchTodo", "reselect")
    /\ IF req[r].id \in DOMAIN todos
       THEN Respond(r, [Answer("patchTodo", 200) EXCEPT !.id = req[r].id])
       ELSE Throw(r, "patchTodo")   \* row is undefined: TypeError in the callback
    /\ UNCHANGED <<todos, tags, todo_tags, sqlite_sequence>>

\* DELETE FROM todos WHERE id = ?
DeleteTodo(r, id) ==
    /\ Free(r)
    /\ IF id \in DOMAIN todos
       THEN /\ todos' = DeleteRows(todos, {id})
            /\ Respond(r, [Answer("deleteTodo", 204) EXCEPT !.id = id])
       ELSE /\ Throw(r, "deleteTodo")   \* this.changes === 0: ctx.throw
            /\ UNCHANGED todos
    /\ UNCHANGED <<tags, todo_tags, sqlite_sequence>>

\* DELETE FROM todos
ClearTodos(r) ==
    /\ Free(r)
    /\ todos' = DeleteRows(todos, DOMAIN todos)
    /\ Respond(r, Answer("clearTodos", 204))
    /\ UNCHANGED <<tags, todo_tags, sqlite_sequence>>

----------------------------------------------------------------------------
(* GET /todos/, GET /todos/:id                                              *)

\* SELECT * FROM todos, then one join per todo is issued.
ListTodos(r) ==
    /\ Free(r)
    /\ IF DOMAIN todos = {}
       THEN Respond(r, Answer("listTodos", 200))
       ELSE Continue(r, [Waiting("listTodos", "joins", 0, 0) EXCEPT !.pending = DOMAIN todos])
    /\ UNCHANGED <<todos, tags, todo_tags, sqlite_sequence>>

\* The join of one todo of the list; the response follows the last one.
ListTodosJoin(r, t) ==
    /\ At(r, "listTodos", "joins")
    /\ t \in req[r].pending
    /\ LET left == req[r].pending \ {t}
           rows == req[r].body \cup JoinTags(t)
       IN  IF left = {}
           THEN Respond(r, [Answer("listTodos", 200) EXCEPT !.body = rows])
           ELSE Continue(r, [req[r] EXCEPT !.pending = left, !.body = rows])
    /\ UNCHANGED <<todos, tags, todo_tags, sqlite_sequence>>

\* SELECT * FROM todos WHERE id = ?
GetTodo(r, id) ==
    /\ Free(r)
    /\ IF id \in DOMAIN todos
       THEN Continue(r, Waiting("getTodo", "join", id, 0))
       ELSE Throw(r, "getTodo")
    /\ UNCHANGED <<todos, tags, todo_tags, sqlite_sequence>>

\* The join that fills todo.tags.
GetTodoJoin(r) ==
    /\ At(r, "getTodo", "join")
    /\ Respond(r, [Answer("getTodo", 200) EXCEPT
                      !.id = req[r].id, !.body = JoinTags(req[r].id)])
    /\ UNCHANGED <<todos, tags, todo_tags, sqlite_sequence>>

----------------------------------------------------------------------------
(* POST, GET, DELETE /todos/:id/tags/ and DELETE /todos/:id/tags/:tagId     *)

\* Validation of the body's id and SELECT id FROM todos WHERE id = ?
LinkTag(r, id, tagId) ==
    /\ Free(r)
    /\ IF tagId = 0 THEN Respond(r, Answer("linkTag", 400))     \* !tagId
       ELSE IF id \notin DOMAIN todos THEN Respond(r, Answer("linkTag", 404))
       ELSE Continue(r, Waiting("linkTag", "checkTag", id, tagId))
    /\ UNCHANGED <<todos, tags, todo_tags, sqlite_sequence>>

\* SELECT id FROM tags WHERE id = ?
LinkTagCheckTag(r) ==
    /\ At(r, "linkTag", "checkTag")
    /\ IF req[r].tagId \notin DOMAIN tags
       THEN Respond(r, Answer("linkTag", 404))
       ELSE Continue(r, [req[r] EXCEPT !.pc = "insert"])
    /\ UNCHANGED <<todos, tags, todo_tags, sqlite_sequence>>

\* INSERT OR IGNORE INTO todo_tags (todo_id, tag_id) VALUES (?, ?)
LinkTagInsert(r) ==
    /\ At(r, "linkTag", "insert")
    /\ LET row == <<req[r].id, req[r].tagId>>
           run == InsertOrIgnore(todo_tags, row)
       IN  /\ todo_tags' = run.table
           /\ Respond(r, [Answer("linkTag", IF run.err THEN 500 ELSE 201) EXCEPT
                             !.id = req[r].id, !.tagId = req[r].tagId,
                             !.changes = Copies(run.table, row) - Copies(todo_tags, row)])
    /\ UNCHANGED <<todos, tags, sqlite_sequence>>

\* SELECT id FROM todos WHERE id = ?
GetTodoTags(r, id) ==
    /\ Free(r)
    /\ IF id \in DOMAIN todos
       THEN Continue(r, Waiting("getTodoTags", "join", id, 0))
       ELSE Throw(r, "getTodoTags")
    /\ UNCHANGED <<todos, tags, todo_tags, sqlite_sequence>>

\* The join that is the response.
GetTodoTagsJoin(r) ==
    /\ At(r, "getTodoTags", "join")
    /\ Respond(r, [Answer("getTodoTags", 200) EXCEPT
                      !.id = req[r].id, !.body = JoinTags(req[r].id)])
    /\ UNCHANGED <<todos, tags, todo_tags, sqlite_sequence>>

\* SELECT id FROM todos WHERE id = ?
UnlinkTag(r, id, tagId) ==
    /\ Free(r)
    /\ IF id \notin DOMAIN todos
       THEN Respond(r, Answer("unlinkTag", 404))
       ELSE Continue(r, Waiting("unlinkTag", "checkTag", id, tagId))
    /\ UNCHANGED <<todos, tags, todo_tags, sqlite_sequence>>

\* SELECT id FROM tags WHERE id = ?
UnlinkTagCheckTag(r) ==
    /\ At(r, "unlinkTag", "checkTag")
    /\ IF req[r].tagId \notin DOMAIN tags
       THEN Respond(r, Answer("unlinkTag", 404))
       ELSE Continue(r, [req[r] EXCEPT !.pc = "delete"])
    /\ UNCHANGED <<todos, tags, todo_tags, sqlite_sequence>>

\* DELETE FROM todo_tags WHERE todo_id = ? AND tag_id = ?
UnlinkTagDelete(r) ==
    /\ At(r, "unlinkTag", "delete")
    /\ LET row == <<req[r].id, req[r].tagId>>
       IN  IF row \in Rows(todo_tags)
           THEN /\ todo_tags' = DeleteRows(todo_tags, {row})
                /\ Respond(r, [Answer("unlinkTag", 204) EXCEPT
                                  !.id = req[r].id, !.tagId = req[r].tagId])
           ELSE /\ Throw(r, "unlinkTag")   \* this.changes === 0: ctx.throw
                /\ UNCHANGED todo_tags
    /\ UNCHANGED <<todos, tags, sqlite_sequence>>

\* SELECT id FROM todos WHERE id = ?
UnlinkAll(r, id) ==
    /\ Free(r)
    /\ IF id \in DOMAIN todos
       THEN Continue(r, Waiting("unlinkAll", "delete", id, 0))
       ELSE Throw(r, "unlinkAll")
    /\ UNCHANGED <<todos, tags, todo_tags, sqlite_sequence>>

\* DELETE FROM todo_tags WHERE todo_id = ?
UnlinkAllDelete(r) ==
    /\ At(r, "unlinkAll", "delete")
    /\ todo_tags' = DeleteRows(todo_tags, {row \in Rows(todo_tags) : row[1] = req[r].id})
    /\ Respond(r, [Answer("unlinkAll", 204) EXCEPT !.id = req[r].id])
    /\ UNCHANGED <<todos, tags, sqlite_sequence>>

----------------------------------------------------------------------------
(* /tags/ and /tags/:id                                                     *)

\* !title || typeof title !== 'string' || !title.length
BadTagTitle(title) == ~Truthy(title) \/ title.type # "string" \/ Len(title.str) = 0

\* Validation and INSERT INTO tags (name) VALUES (?)
PostTag(r, title) ==
    /\ Free(r)
    /\ IF BadTagTitle(title)
       THEN /\ Respond(r, Answer("postTag", 400))
            /\ UNCHANGED <<tags, sqlite_sequence>>
       ELSE IF UniqueViolation(tags, 0, title.str)
       THEN /\ Respond(r, Answer("postTag", 500))
            /\ UNCHANGED <<tags, sqlite_sequence>>
       ELSE /\ sqlite_sequence.tags < MaxTags
            /\ LET tagId == lastID(tags, sqlite_sequence.tags)
               IN  /\ tags' = InsertTag(tags, tagId, title.str)
                   /\ sqlite_sequence' = [sqlite_sequence EXCEPT !.tags = tagId]
                   /\ Respond(r, [Answer("postTag", 201) EXCEPT !.tagId = tagId])
    /\ UNCHANGED <<todos, todo_tags>>

\* The UPDATE without its WHERE clause: every row gets the name.
RenameTag_EveryRow(table, id, name) == [o \in DOMAIN table |-> name]

\* UPDATE tags SET name = ? WHERE id = ?, once the UNIQUE check has passed.
RenameTag(table, id, name) == [table EXCEPT ![id] = name]

\* Validation and UPDATE tags SET name = ? WHERE id = ?
PatchTag(r, id, title) ==
    /\ Free(r)
    /\ IF BadTagTitle(title)
       THEN /\ Respond(r, Answer("patchTag", 400))
            /\ UNCHANGED tags
       ELSE IF id \notin DOMAIN tags
       THEN /\ Throw(r, "patchTag")   \* this.changes === 0: ctx.throw
            /\ UNCHANGED tags
       ELSE IF UniqueViolation(tags, id, title.str)
       THEN /\ Respond(r, Answer("patchTag", 500))
            /\ UNCHANGED tags
       ELSE /\ tags' = RenameTag(tags, id, title.str)
            /\ Respond(r, [Answer("patchTag", 200) EXCEPT !.tagId = id])
    /\ UNCHANGED <<todos, todo_tags, sqlite_sequence>>

\* DELETE FROM tags WHERE id = ?
DeleteTag(r, id) ==
    /\ Free(r)
    /\ IF id \in DOMAIN tags
       THEN /\ tags' = DeleteRows(tags, {id})
            /\ Respond(r, [Answer("deleteTag", 204) EXCEPT !.tagId = id])
       ELSE /\ Throw(r, "deleteTag")   \* this.changes === 0: ctx.throw
            /\ UNCHANGED tags
    /\ UNCHANGED <<todos, todo_tags, sqlite_sequence>>

\* DELETE FROM tags
ClearTags(r) ==
    /\ Free(r)
    /\ tags' = DeleteRows(tags, DOMAIN tags)
    /\ Respond(r, Answer("clearTags", 204))
    /\ UNCHANGED <<todos, todo_tags, sqlite_sequence>>

\* GET /tags/: SELECT * FROM tags
ListTags(r) ==
    /\ Free(r)
    /\ Respond(r, Answer("listTags", 200))
    /\ UNCHANGED <<todos, tags, todo_tags, sqlite_sequence>>

\* GET /tags/:id and GET /tags/:id/todos/: the SELECT that looks the tag up
GetTag(r, op, id) ==
    /\ Free(r)
    /\ op \in {"getTag", "getTagTodos"}
    /\ IF id \in DOMAIN tags
       THEN Continue(r, Waiting(op, "join", 0, id))
       ELSE Throw(r, op)
    /\ UNCHANGED <<todos, tags, todo_tags, sqlite_sequence>>

\* The join that lists the tag's todos.
GetTagJoin(r) ==
    /\ \E op \in {"getTag", "getTagTodos"} : At(r, op, "join")
    /\ Respond(r, [Answer(req[r].op, 200) EXCEPT
                      !.tagId = req[r].tagId, !.body = JoinTodos(req[r].tagId)])
    /\ UNCHANGED <<todos, tags, todo_tags, sqlite_sequence>>

----------------------------------------------------------------------------
(* Inputs of the requests.                                                  *)

Body(title, completed, order) == [title |-> title, completed |-> completed, order |-> order]

\* Bodies of POST /todos/ that fail before the first statement: a missing
\* title and an order that is not a number.
BadPostBodies ==
    {Body(Undefined, Undefined, Undefined), Body(Str(<<"x">>), Undefined, Str(<<"x">>))}

\* Titles "x", "x #a", "x #b": at most one tag each.
OneTagTitles ==
    { <<"x">>, <<"x", " ", "#", "a">>, <<"x", " ", "#", "b">> }

\* Titles "x #a #a", "#a #b", "": a repeated tag, two tags, nothing but tags.
TwoTagTitles ==
    { <<"x", " ", "#", "a", " ", "#", "a">>, <<"#", "a", " ", "#", "b">>, <<>> }

PostTodoBodies(titles) == {Body(Str(t), Undefined, Undefined) : t \in titles}

\* Bodies of PATCH /todos/:id.
CompletedOnly == Body(Undefined, Bool(TRUE), Undefined)
EmptyBody == Body(Undefined, Undefined, Undefined)
BadOrder == Body(Undefined, Undefined, Str(<<"x">>))

PatchTodoBodies ==
    {CompletedOnly,
     Body(Str(<<"y">>), Undefined, Undefined),
     Body(Undefined, Bool(FALSE), Num(0)),
     EmptyBody,
     BadOrder}

TagTitles == {Str(<<"a">>), Str(<<"b">>), Str(<<>>), Undefined}

----------------------------------------------------------------------------
(* The application: any client may send any request; any outstanding        *)
(* statement may be the next one the store executes.                        *)

\* The statements of a POST /todos/ in flight.
PostTodoStep(r) ==
    \/ \E i \in 1..2 : PostTodoLookup(r, i)
    \/ \E i \in 1..2 : PostTodoInsertTag(r, i)
    \/ \E i \in 1..2 : PostTodoLink(r, i)

\* Every handler of the router, with the bodies POST and PATCH /todos/ draw from.
Handler(r, posts, patches) ==
    \/ \E b \in posts : PostTodo(r, b)
    \/ PostTodoStep(r)
    \/ \E id \in TodoIds, b \in patches : PatchTodo(r, id, b)
    \/ PatchTodoSelect(r)
    \/ \E id \in TodoIds : DeleteTodo(r, id)
    \/ ClearTodos(r)
    \/ ListTodos(r)
    \/ \E t \in TodoIds : ListTodosJoin(r, t)
    \/ \E id \in TodoIds : GetTodo(r, id)
    \/ GetTodoJoin(r)
    \/ \E id \in TodoIds, tagId \in 0..MaxTags : LinkTag(r, id, tagId)
    \/ LinkTagCheckTag(r)
    \/ LinkTagInsert(r)
    \/ \E id \in TodoIds : GetTodoTags(r, id)
    \/ GetTodoTagsJoin(r)
    \/ \E id \in TodoIds, tagId \in TagIds : UnlinkTag(r, id, tagId)
    \/ UnlinkTagCheckTag(r)
    \/ UnlinkTagDelete(r)
    \/ \E id \in TodoIds : UnlinkAll(r, id)
    \/ UnlinkAllDelete(r)
    \/ \E title \in TagTitles : PostTag(r, title)
    \/ \E id \in TagIds, title \in TagTitles : PatchTag(r, id, title)
    \/ \E id \in TagIds : DeleteTag(r, id)
    \/ ClearTags(r)
    \/ ListTags(r)
    \/ \E id \in TagIds, op \in {"getTag", "getTagTodos"} : GetTag(r, op, id)
    \/ GetTagJoin(r)

Next ==
    \E r \in Clients :
        Handler(r, PostTodoBodies(OneTagTitles) \cup BadPostBodies, {EmptyBody, BadOrder})

Spec == Init /\ [][Next]_vars

\* The application used by a single client: a request is sent only when the
\* one before it has been answered.
SerialNext ==
    \E r \in {"c1"} :
        Handler(r, PostTodoBodies(OneTagTitles \cup TwoTagTitles) \cup BadPostBodies,
                {EmptyBody, BadOrder})

SerialSpec == InitRecording /\ [][SerialNext]_vars

\* Nothing but POST /todos/ requests, of both clients at once.
PostTodoNext ==
    \E r \in Clients :
        \/ \E b \in PostTodoBodies(OneTagTitles) : PostTodo(r, b)
        \/ PostTodoStep(r)

PostTodoSpec == InitRecording /\ [][PostTodoNext]_vars

\* A POST /todos/ body with a tag in the title and an order.
PostWithOrder == Body(Str(<<"x", " ", "#", "a">>), Undefined, Num(1))

\* The todo rows and their fields: POST and PATCH of todos, of both clients at
\* once, with every PATCH body.
PatchNext ==
    \E r \in Clients :
        \/ PostTodo(r, PostWithOrder)
        \/ PostTodoStep(r)
        \/ \E id \in TodoIds, b \in PatchTodoBodies : PatchTodo(r, id, b)
        \/ PatchTodoSelect(r)

PatchSpec == Init /\ [][PatchNext]_vars

\* The associations: both clients link and unlink the todos and tags that
\* are created meanwhile.
LinkNext ==
    \E r \in Clients :
        \/ \E b \in PostTodoBodies({<<"x">>}) : PostTodo(r, b)
        \/ \E title \in {Str(<<"a">>), Str(<<"b">>)} : PostTag(r, title)
        \/ \E id \in TodoIds, tagId \in 0..MaxTags : LinkTag(r, id, tagId)
        \/ LinkTagCheckTag(r)
        \/ LinkTagInsert(r)
        \/ \E id \in TodoIds, tagId \in TagIds : UnlinkTag(r, id, tagId)
        \/ UnlinkTagCheckTag(r)
        \/ UnlinkTagDelete(r)

LinkSpec == InitRecording /\ [][LinkNext]_vars

\* The tag names: every request that inserts, renames or deletes a tag row,
\* of both clients at once.
TagNameNext ==
    \E r \in Clients :
        \/ \E b \in PostTodoBodies(OneTagTitles) : PostTodo(r, b)
        \/ PostTodoStep(r)
        \/ \E title \in TagTitles : PostTag(r, title)
        \/ \E id \in TagIds, title \in TagTitles : PatchTag(r, id, title)
        \/ \E id \in TagIds : DeleteTag(r, id)

TagNameSpec == Init /\ [][TagNameNext]_vars

\* The tag lists of todos: a single client creates todos and tags, deletes
\* tags and reads the todos.
TagListNext ==
    \E r \in {"c1"} :
        \/ \E b \in PostTodoBodies(OneTagTitles) : PostTodo(r, b)
        \/ PostTodoStep(r)
        \/ \E title \in TagTitles : PostTag(r, title)
        \/ \E id \in TagIds : DeleteTag(r, id)
        \/ ClearTags(r)
        \/ ListTodos(r)
        \/ \E t \in TodoIds : ListTodosJoin(r, t)
        \/ \E id \in TodoIds : GetTodo(r, id)
        \/ GetTodoJoin(r)
        \/ \E id \in TodoIds : GetTodoTags(r, id)
        \/ GetTodoTagsJoin(r)

TagListSpec == InitRecording /\ [][TagListNext]_vars

\* Links against deletes: both clients link todos and tags while todos and
\* tags are created and deleted.
LinkDeleteNext ==
    \E r \in Clients :
        \/ \E b \in PostTodoBodies({<<"x">>}) : PostTodo(r, b)
        \/ \E title \in {Str(<<"a">>), Str(<<"b">>)} : PostTag(r, title)
        \/ \E id \in TodoIds, tagId \in 0..MaxTags : LinkTag(r, id, tagId)
        \/ LinkTagCheckTag(r)
        \/ LinkTagInsert(r)
        \/ \E id \in TodoIds : DeleteTodo(r, id)
        \/ \E id \in TagIds : DeleteTag(r, id)

LinkDeleteSpec == InitRecording /\ [][LinkDeleteNext]_vars

\* The ids: both clients create and delete todos and tags, one row or all
\* rows at a time.
IdNext ==
    \E r \in Clients :
        \/ \E b \in PostTodoBodies(OneTagTitles) : PostTodo(r, b)
        \/ PostTodoStep(r)
        \/ \E id \in TodoIds : DeleteTodo(r, id)
        \/ ClearTodos(r)
        \/ \E title \in TagTitles : PostTag(r, title)
        \/ \E id \in TagIds : DeleteTag(r, id)
        \/ ClearTags(r)

IdSpec == Init /\ [][IdNext]_vars

\* Renaming tags that todos list: both clients create todos tagged a, create
\* tags and rename them.
TagPatchNext ==
    \E r \in Clients :
        \/ PostTodo(r, PostWithOrder)
        \/ PostTodoStep(r)
        \/ \E title \in TagTitles : PostTag(r, title)
        \/ \E id \in TagIds, title \in TagTitles : PatchTag(r, id, title)

TagPatchSpec == InitRecording /\ [][TagPatchNext]_vars

----------------------------------------------------------------------------
(* Properties.                                                              *)

\* The tag ids that were handed out and whose row is gone.
GoneTags == {t \in 1..sqlite_sequence.tags : t \notin DOMAIN tags}

\* The names of the tags that todo id has an association row to.
LinkedNames(id) ==
    {tags[row[2]] : row \in {x \in Rows(todo_tags) : x[1] = id /\ x[2] \in DOMAIN tags}}

Range(seq) == {seq[i] : i \in DOMAIN seq}

\* C1: every todo_tags row references a todo row and a tag row that both
\* exist; no row is left behind for a deleted todo or tag.
C1_AssociationsReferenceExistingRows ==
    \A row \in Rows(todo_tags) : row[1] \in DOMAIN todos /\ row[2] \in DOMAIN tags

\* C2: when a POST /todos/ that ran alongside other POST /todos/ requests only
\* has finished, each tag name its title embeds has exactly one tags row and
\* the new todo has an association row to it (so two such requests that share
\* a new name end with one tag row and both todos linked to it).
C2_ConcurrentPostsShareOneTag ==
    (response.op = "postTodo" /\ response.id # 0) =>
        \A n \in Range(response.names) :
            /\ Cardinality(SelectTagByName(tags, n)) = 1
            /\ \A t \in SelectTagByName(tags, n) : <<response.id, t>> \in Rows(todo_tags)

\* C3: no two rows of tags have the same name.
C3_TagNamesUnique ==
    \A i, j \in DOMAIN tags : tags[i] = tags[j] => i = j

\* C3 witness: two tag rows exist, so a second name was inserted or renamed
\* next to an existing one.
C3_TwoTagRows ==
    /\ C3_TagNamesUnique
    /\ Cardinality(DOMAIN tags) = 2

\* C4: a POST /todos/ whose title is a string answers 201, and then the new
\* todo is associated with exactly the extracted tag names, each of them has
\* exactly one tags row, and the stored title holds no tag token.
C4_PostTodoLinksExtractedTags ==
    (response.op = "postTodo" /\ response.id # 0) =>
        /\ response.status = 201
        /\ response.id \in DOMAIN todos
        /\ extractTags(todos[response.id].title) = <<>>
        /\ LinkedNames(response.id) = Range(response.names)
        /\ \A n \in Range(response.names) : Cardinality(SelectTagByName(tags, n)) = 1

\* C5: a POST /todos/ that fails after its todo was inserted (while resolving,
\* creating or linking a tag) leaves no row of the new todo and no
\* association row of it in the store.
C5_FailedPostTodoLeavesNothing ==
    (response.op = "postTodo" /\ response.status = 500 /\ response.id # 0) =>
        /\ response.id \notin DOMAIN todos
        /\ \A row \in Rows(todo_tags) : row[1] # response.id

\* The responses that carry tag lists of todos.
TagListResponse(a) == a.op \in {"getTodo", "getTodoTags", "listTodos"} /\ a.status = 200

\* C6: once a tag's row is gone, no GET /todos/:id, GET /todos/ or
\* GET /todos/:id/tags/ returns it in a tag list, and it stays gone whatever
\* todos and tags are created later.
C6_DeletedTagNeverListed ==
    [][\A t \in GoneTags :
          /\ t \notin DOMAIN tags'
          /\ TagListResponse(response') => \A row \in response'.body : row[2] # t]_vars

\* C6 witness: a tag list was returned for a todo that still has an
\* association row to a tag that is gone.
C6_ListedWithoutDeletedTag ==
    /\ response.op = "getTodo" /\ response.status = 200
    /\ \E row \in Rows(todo_tags) : row[1] = response.id /\ row[2] \in GoneTags
    /\ \A row \in response.body : row[2] \notin GoneTags

\* C7: the UPDATE of PATCH /todos/:id on an existing todo keeps every field
\* the body does not supply, every other todo, every tag and every
\* association row.
C7_PatchTodoFrame ==
    [][\A r \in Clients, id \in TodoIds, b \in PatchTodoBodies :
          (id \in DOMAIN todos /\ b.order.type \in {"undefined", "number"}
              /\ PatchTodo(r, id, b)) =>
              /\ DOMAIN todos' = DOMAIN todos
              /\ \A f \in {"title", "completed", "order"} \ Supplied(b) :
                    todos'[id][f] = todos[id][f]
              /\ \A o \in DOMAIN todos \ {id} : todos'[o] = todos[o]
              /\ tags' = tags
              /\ todo_tags' = todo_tags]_vars

\* C7 witness: a PATCH that supplied completed only has set it on a todo
\* whose title and order are still those it was created with.
C7_CompletedOnlyPatched ==
    \E r \in Clients :
        /\ req[r].op = "patchTodo" /\ req[r].pc = "reselect"
        /\ req[r].supplied = {"completed"}
        /\ req[r].id \in DOMAIN todos
        /\ todos[req[r].id] = [title |-> <<"x">>, completed |-> 1, order |-> Val(1)]
        /\ tags # EmptyTable /\ todo_tags # EmptyTable

\* C8: DELETE /todos/:id for an id that matches no row answers 404 and leaves
\* the three tables as they were.
C8_DeleteMissingTodoAnswers404 ==
    [][\A r \in Clients, id \in TodoIds :
          (DeleteTodo(r, id) /\ id \notin DOMAIN todos) =>
              /\ response'.status = 404
              /\ store' = store]_vars

\* C9: the INSERT of POST /todos/:id/tags/ answers 201 and leaves exactly one
\* row for the pair; when the pair was linked already, the store is unchanged.
C9_LinkIsIdempotent ==
    [][\A r \in Clients :
          LinkTagInsert(r) =>
              LET row == <<req[r].id, req[r].tagId>>
              IN  /\ response'.status = 201
                  /\ Copies(todo_tags', row) = 1
                  /\ Copies(todo_tags, row) = 1 => store' = store]_vars

\* C9 witness: a second link of a pair has answered 201 without adding a row,
\* while the todo and the tag both exist.
C9_LinkedTwice ==
    /\ response.op = "linkTag" /\ response.status = 201 /\ response.changes = 0
    /\ Copies(todo_tags, <<response.id, response.tagId>>) = 1
    /\ response.id \in DOMAIN todos /\ response.tagId \in DOMAIN tags

\* C10: no request is left without a response: a handler in flight is never
\* at a position from which its promise can no longer settle.
C10_EveryRequestAnswered ==
    \A r \in Clients : req[r].pc # "thrown"

\* C11: POST /todos/:id/tags/ answers 404 and leaves todo_tags unchanged when
\* the todo or the tag matches no row, and the row it inserts is for a todo and
\* a tag that both exist in the state in which it is inserted.
C11_LinkRequiresBothSides ==
    [][\A r \in Clients :
          /\ \A id \in TodoIds, tagId \in TagIds :
                (id \notin DOMAIN todos /\ LinkTag(r, id, tagId)) =>
                    response'.status = 404 /\ todo_tags' = todo_tags
          /\ (req[r].tagId \notin DOMAIN tags /\ LinkTagCheckTag(r)) =>
                response'.status = 404 /\ todo_tags' = todo_tags
          /\ (LinkTagInsert(r) /\ todo_tags' # todo_tags) =>
                req[r].id \in DOMAIN todos /\ req[r].tagId \in DOMAIN tags]_vars

\* C12: the DELETE of DELETE /todos/:id/tags/:tagId removes exactly the row of
\* a linked pair and leaves the other rows, the todos and the tags unchanged;
\* for a pair that is not linked, and for a todo or tag that does not exist,
\* the request answers 404 and the store is unchanged.
C12_UnlinkRemovesOneRowOr404 ==
    [][\A r \in Clients :
          /\ \A id \in TodoIds, tagId \in TagIds :
                (id \notin DOMAIN todos /\ UnlinkTag(r, id, tagId)) =>
                    response'.status = 404 /\ store' = store
          /\ (req[r].tagId \notin DOMAIN tags /\ UnlinkTagCheckTag(r)) =>
                response'.status = 404 /\ store' = store
          /\ UnlinkTagDelete(r) =>
                LET row == <<req[r].id, req[r].tagId>>
                IN  /\ todos' = todos /\ tags' = tags
                    /\ IF row \in Rows(todo_tags)
                       THEN Rows(todo_tags') = Rows(todo_tags) \ {row}
                       ELSE response'.status = 404 /\ todo_tags' = todo_tags]_vars

\* C13: every row of todos has a non-empty title.
C13_TodoTitlesNonEmpty ==
    \A id \in DOMAIN todos : todos[id].title # <<>>

\* The largest of a set of ids (0 when there is none).
Largest(ids) == IF ids = {} THEN 0 ELSE CHOOSE m \in ids : \A o \in ids : o <= m

\* C14: a row inserted into todos (resp. tags) gets an id greater than every
\* id of a row that is or was in the table, so an id whose row is gone stays
\* without a row and a todo_tags row left over for it is never attached to a
\* later todo (resp. tag).
C14_IdsNeverReused ==
    [][/\ \A id \in DOMAIN todos' \ DOMAIN todos :
             /\ id > Largest(DOMAIN todos \cup {row[1] : row \in Rows(todo_tags)})
             /\ id > sqlite_sequence.todos
             /\ \A row \in Rows(todo_tags) : row[1] # id
       /\ \A id \in DOMAIN tags' \ DOMAIN tags :
             /\ id > Largest(DOMAIN tags \cup {row[2] : row \in Rows(todo_tags)})
             /\ id > sqlite_sequence.tags
             /\ \A row \in Rows(todo_tags) : row[2] # id
       /\ sqlite_sequence'.todos >= sqlite_sequence.todos
       /\ sqlite_sequence'.tags >= sqlite_sequence.tags]_vars

\* C14 witness: a todo and a tag were created after the todo and the tag of a
\* left-over association row were deleted, with greater ids.
C14_CreatedAfterDelete ==
    \E row \in Rows(todo_tags) :
        /\ row[1] \notin DOMAIN todos /\ row[2] \notin DOMAIN tags
        /\ \E id \in DOMAIN todos : id > row[1]
        /\ \E id \in DOMAIN tags : id > row[2]

\* C15: PATCH /tags/:id changes nothing but the name of tag id: the ids of the
\* tags, every other tag, every todo and every association row are unchanged,
\* and after a 2xx answer every todo that listed the tag lists it under the
\* new name; when the id matches no row or another tag holds the new name,
\* the store is unchanged and the answer, if any, is not 2xx.
C15_PatchTagFrame ==
    [][\A r \in Clients, id \in TagIds, title \in TagTitles :
          PatchTag(r, id, title) =>
              /\ todos' = todos /\ todo_tags' = todo_tags
              /\ DOMAIN tags' = DOMAIN tags
              /\ \A o \in DOMAIN tags \ {id} : tags'[o] = tags[o]
              /\ response'.status \in 200..299 =>
                    /\ id \in DOMAIN tags /\ tags'[id] = title.str
                    /\ \A t \in DOMAIN todos :
                          <<t, id>> \in JoinTags(t) =>
                              <<t, id>> \in JoinTags(t)' /\ tags'[id] = title.str
              /\ (id \notin DOMAIN tags
                    \/ \E o \in DOMAIN tags \ {id} : title.type = "string" /\ tags[o] = title.str) =>
                    store' = store /\ response'.status \notin 200..299]_vars

\* C15 witness: a PATCH answered 200 for a tag that a todo was linked to under
\* the name a, and the todo now lists it under the name b, next to another tag.
C15_RenamedLinkedTag ==
    /\ response.op = "patchTag" /\ response.status = 200
    /\ response.tagId \in DOMAIN tags /\ tags[response.tagId] = <<"b">>
    /\ \E t \in DOMAIN todos : <<t, response.tagId>> \in JoinTags(t)
    /\ sqlite_sequence.tags = 2

====
